---- MODULE Spec2Model ----
(***************************************************************************)
(* MotorInferencia (src/rules_engine.py): a rule engine that loads a JSON  *)
(* rule list, sorts it by 'prioridade' and classifies alert rows by the    *)
(* first rule whose conditions all hold.                                   *)
(*                                                                         *)
(* Python dicts (a rule, a condition, an alert row) are TLA+ functions     *)
(* whose DOMAIN is the set of keys present, so `k in d` is k \in DOMAIN d  *)
(* and d[k] on an absent key is the KeyError the code would raise.         *)
(* Python values are tagged: [kind |-> "num"|"str"|"nan"|"null", v |-> Int] *)
(* and a string's v is its rank in Textos, which is in Python's string     *)
(* order.  A JSON object is never tagged: it has no key "kind".            *)
(***************************************************************************)
EXTENDS Integers, Sequences, FiniteSets

VARIABLES
    ficheiro_regras,  \* the rule source handed to the constructor
    fase,             \* "novo" | "pronto" (object built) | "falhou" (__init__ raised)
    excecao,          \* exception __init__ let through, "nenhuma" if none
    regras,           \* self.regras
    op,               \* last method called on the engine
    alerta_row,       \* argument of the last avaliar_alerta call
    retorno,          \* outcome of the last avaliar_alerta call
    visitadas,        \* conditions the last avaliar_alerta call evaluated, in order
    ficheiro_csv,     \* argument of the last processar_dataset call
    df_resultado,     \* outcome of the last processar_dataset call
    linhas_lidas      \* rows the last processar_dataset call handed to avaliar_alerta

vars == <<ficheiro_regras, fase, excecao, regras, op, alerta_row, retorno,
          visitadas, ficheiro_csv, df_resultado, linhas_lidas>>

----------------------------------------------------------------------------
(* Bounds of the explored inputs *)

MaxRegras == 3            \* rules in a rule source (SpecAvaliar)
MaxRegrasLote == 2        \* rules in a rule source (Spec)
MaxRegrasEstrutura == 2   \* rules in a rule source (SpecEstrutura)
MaxLinhas == 2            \* rows in a CSV file

----------------------------------------------------------------------------
(* Values *)

Textos == <<"nenhum", "raio_seco">>     \* ascending in Python's str order

Num(n) == [kind |-> "num", v |-> n]
Str(i) == [kind |-> "str", v |-> i]
NaN    == [kind |-> "nan", v |-> 0]

Campos == {"temp", "event_type"}

\* Python's a > b for the value kinds above: numbers by value, strings
\* lexicographically, NaN unordered, str against a number raises TypeError.
PyGT(a, b) ==
    CASE a.kind = "str" /\ b.kind = "str" -> IF a.v > b.v THEN "True" ELSE "False"
      [] a.kind = "str" \/ b.kind = "str" -> "TypeError"
      [] a.kind = "nan" \/ b.kind = "nan" -> "False"
      [] OTHER -> IF a.v > b.v THEN "True" ELSE "False"

PyEQ(a, b) ==
    IF a.kind = b.kind /\ a.kind # "nan" /\ a.v = b.v THEN "True" ELSE "False"

\* Python's a >= b, same kinds of operands as PyGT.
PyGE(a, b) ==
    CASE a.kind = "str" /\ b.kind = "str" -> IF a.v >= b.v THEN "True" ELSE "False"
      [] a.kind = "str" \/ b.kind = "str" -> "TypeError"
      [] a.kind = "nan" \/ b.kind = "nan" -> "False"
      [] OTHER -> IF a.v >= b.v THEN "True" ELSE "False"

PyNE(a, b) == IF PyEQ(a, b) = "True" THEN "False" ELSE "True"

Operadores == {">", "<", "==", "!=", ">=", "<="}

\* The six `if operador == ...: return ...` lines.
Comparar(alerta_valor, operador, regra_valor) ==
    CASE operador = ">"  -> PyGT(alerta_valor, regra_valor)
      [] operador = "<"  -> PyGT(regra_valor, alerta_valor)
      [] operador = "==" -> PyEQ(alerta_valor, regra_valor)
      [] operador = "!=" -> PyNE(alerta_valor, regra_valor)
      [] operador = ">=" -> PyGE(alerta_valor, regra_valor)
      [] operador = "<=" -> PyGE(regra_valor, alerta_valor)

\* An unrecognised operator falls through every `if` to the final return False.
_verificar_condicao(alerta_valor, operador, regra_valor) ==
    IF operador \in Operadores
    THEN Comparar(alerta_valor, operador, regra_valor)
    ELSE "False"

----------------------------------------------------------------------------
(* Rules and rule sources *)

Ids    == <<"R1", "R2", "R3", "R4", "R5">>
Acoes  == <<"acao 1", "acao 2", "acao 3", "acao 4", "acao 5">>
Riscos == <<"CRITICO", "ALTO", "MEDIO">>

Prioridades == {1, 2}

Cond(variavel, operador, valor) ==
    [variavel |-> variavel, operador |-> operador, valor |-> valor]

\* The i-th rule object of a source: its id and action are those of its position.
Regra(i, prioridade, condicoes) ==
    [id |-> Ids[i], prioridade |-> Num(prioridade), condicoes |-> condicoes,
     resultado |-> [risco |-> Riscos[prioridade], acao |-> Acoes[i]]]

\* A dict without key k.
Sem(d, k) == [x \in DOMAIN d \ {k} |-> d[x]]

\* Condition lists of well-formed rules: every operator, both value kinds, an
\* operator the engine does not know ("~"), and the empty list.
ListasCondicoes ==
    { <<>>,
      <<Cond("temp", ">", Num(40)), Cond("event_type", "==", Str(2))>>,
      <<Cond("event_type", "!=", Str(2)), Cond("temp", "<=", Num(40))>>,
      <<Cond("event_type", ">=", Num(40)), Cond("temp", "<", Num(50))>>,
      <<Cond("temp", "~", Num(40))>> }

\* What the path given to the constructor holds.  estado is how far lines
\* 17-18 get: open() finds no file, open() finds a directory, the bytes are not
\* UTF-8, the text is not JSON, or json.load returns ("ok"); topo is the kind of
\* the JSON value returned and conteudo the array, when it is one.
FicheiroOk(conteudo) == [estado |-> "ok", topo |-> "array", conteudo |-> conteudo]
FicheiroNaoLista     == [estado |-> "ok", topo |-> "objeto", conteudo |-> <<>>]
FicheiroInexistente  == [estado |-> "inexistente", topo |-> "nenhum", conteudo |-> <<>>]
FicheiroDiretorio    == [estado |-> "diretorio", topo |-> "nenhum", conteudo |-> <<>>]
FicheiroNaoUtf8      == [estado |-> "nao_utf8", topo |-> "nenhum", conteudo |-> <<>>]
FicheiroInvalido     == [estado |-> "invalido", topo |-> "nenhum", conteudo |-> <<>>]

\* Sources json.load does not return an array for.
FicheirosSemLista ==
    {FicheiroInexistente, FicheiroDiretorio, FicheiroNaoUtf8, FicheiroInvalido,
     FicheiroNaoLista}

\* Rule arrays of n well-formed rules.
Fontes(n) ==
    { [i \in 1..n |-> Regra(i, f[i][1], f[i][2])] :
        f \in [1..n -> Prioridades \X ListasCondicoes] }

FicheirosRegras(n) ==
    FicheirosSemLista
    \cup { FicheiroOk(c) : c \in UNION { Fontes(k) : k \in 0..n } }

\* JSON null.
Nulo == [kind |-> "null", v |-> 0]

\* A JSON number standing where a rule object is expected.
NaoObjeto == Num(7)

\* An array entry is a JSON object (a dict), not a scalar.
EhObjeto(r) == "kind" \notin DOMAIN r

\* The i-th entry of an array that is parseable JSON but not always a complete
\* rule: a key of the rule, of its result or of its condition may be missing,
\* the operator may be one the engine does not know, the priority may be a
\* string or null, and the entry may not be an object at all.
RegrasEstrutura(i) ==
    LET c == Cond("temp", ">", Num(40))
        r == Regra(i, 1, <<c>>)
    IN  { r,
          Regra(i, 2, <<>>),
          [r EXCEPT !.prioridade = Str(1)],
          [r EXCEPT !.prioridade = Nulo],
          NaoObjeto,
          Sem(r, "prioridade"),
          Sem(r, "id"),
          Sem(r, "condicoes"),
          Sem(r, "resultado"),
          [r EXCEPT !.resultado = Sem(r.resultado, "acao")],
          [r EXCEPT !.condicoes = <<Sem(c, "variavel")>>],
          [r EXCEPT !.condicoes = <<Sem(c, "operador")>>],
          [r EXCEPT !.condicoes = <<Sem(c, "valor")>>],
          [r EXCEPT !.condicoes = <<Cond("temp", "~", Num(40))>>] }

FontesEstrutura(n) ==
    IF n = 0 THEN { <<>> }
    ELSE { f \in [1..n -> UNION { RegrasEstrutura(i) : i \in 1..n }] :
             \A i \in 1..n : f[i] \in RegrasEstrutura(i) }

FicheirosEstrutura ==
    { FicheiroOk(c) : c \in UNION { FontesEstrutura(k) : k \in 0..MaxRegrasEstrutura } }

----------------------------------------------------------------------------
(* __init__: json.load, then list.sort(key=prioridade) *)

\* Position of the first entry the sort key r['prioridade'] raises on, 0 if none.
PrimeiraSemChave(rs) ==
    LET sem == { i \in 1..Len(rs) :
                   ~EhObjeto(rs[i]) \/ "prioridade" \notin DOMAIN rs[i] }
    IN  IF sem = {} THEN 0 ELSE CHOOSE i \in sem : \A j \in sem : i <= j

\* Python's a < b returns for two keys: numbers with numbers and strings with
\* strings; anything with null, or a number with a string, raises TypeError.
Ordenaveis(a, b) == a.kind = b.kind /\ a.kind \in {"num", "str"}

\* The sort compares no key when there are fewer than two, and otherwise meets
\* a pair that does not compare if there is one.
ChavesOrdenaveis(rs) ==
    \/ Len(rs) <= 1
    \/ \A i \in 1..Len(rs), j \in 1..Len(rs) :
          Ordenaveis(rs[i].prioridade, rs[j].prioridade)

MenorPrioridade(rs) ==
    CHOOSE p \in { rs[i].prioridade : i \in 1..Len(rs) } :
        \A i \in 1..Len(rs) : p.v <= rs[i].prioridade.v

\* The order list.sort leaves keys that compare in: ascending and stable.
RECURSIVE Ordenar(_)
Ordenar(rs) ==
    IF rs = <<>> THEN <<>>
    ELSE LET m == MenorPrioridade(rs)
             Primeiras(r) == r.prioridade = m
             Restantes(r) == r.prioridade # m
         IN  SelectSeq(rs, Primeiras) \o Ordenar(SelectSeq(rs, Restantes))

Pronto(rs)   == [fase |-> "pronto", excecao |-> "nenhuma", regras |-> rs]
Falha(e, rs) == [fase |-> "falhou", excecao |-> e, regras |-> rs]

\* self.regras.sort(key=lambda r: r['prioridade']) on a loaded array.  The key
\* is computed for every entry first, in list order: an entry that is not an
\* object raises TypeError, an object without 'prioridade' KeyError.  Then the
\* keys are compared, and a pair that does not compare raises TypeError.  None
\* of these is caught; a sort that raised on up to three entries has moved none.
OrdenarRegras(rs) ==
    LET k == PrimeiraSemChave(rs) IN
    CASE k # 0 /\ ~EhObjeto(rs[k]) -> Falha("TypeError", rs)
      [] k # 0 /\ EhObjeto(rs[k])  -> Falha("KeyError", rs)
      [] k = 0 /\ ~ChavesOrdenaveis(rs) -> Falha("TypeError", rs)
      [] OTHER -> Pronto(Ordenar(rs))

\* Variant: the two except clauses re-raise instead of leaving an empty list.
CarregarPropagaErro(f) ==
    CASE f.estado = "inexistente" -> Falha("FileNotFoundError", <<>>)
      [] f.estado = "invalido"    -> Falha("JSONDecodeError", <<>>)
      [] f.estado = "diretorio"   -> Falha("IsADirectoryError", <<>>)
      [] f.estado = "nao_utf8"    -> Falha("UnicodeDecodeError", <<>>)
      [] f.estado = "ok" /\ f.topo # "array" -> Falha("AttributeError", <<>>)
      [] OTHER -> OrdenarRegras(f.conteudo)

\* Variant: rules that are not structurally complete are rejected at load time.
RegraCompleta(r) ==
    /\ EhObjeto(r)
    /\ {"id", "prioridade", "condicoes", "resultado"} \subseteq DOMAIN r
    /\ {"risco", "acao"} \subseteq DOMAIN r.resultado
    /\ \A j \in 1..Len(r.condicoes) :
          /\ {"variavel", "operador", "valor"} \subseteq DOMAIN r.condicoes[j]
          /\ r.condicoes[j].operador \in Operadores

CarregarComValidacao(f) ==
    CASE f.estado \in {"inexistente", "invalido"} -> Pronto(<<>>)
      [] f.estado = "diretorio" -> Falha("IsADirectoryError", <<>>)
      [] f.estado = "nao_utf8"  -> Falha("UnicodeDecodeError", <<>>)
      [] f.estado = "ok" /\ f.topo # "array" -> Falha("AttributeError", <<>>)
      [] f.estado = "ok" /\ f.topo = "array"
           /\ \E i \in 1..Len(f.conteudo) : ~RegraCompleta(f.conteudo[i]) ->
            Falha("InvalidRuleError", <<>>)
      [] OTHER -> OrdenarRegras(f.conteudo)

\* What the constructor leaves behind (lines 16-27).
\*   open():     no such file raises FileNotFoundError, which is caught and
\*               leaves self.regras = []; a directory raises IsADirectoryError,
\*               an OSError no except clause names.
\*   json.load:  bytes that are not UTF-8 raise UnicodeDecodeError, which is
\*               not caught; text that is not JSON raises JSONDecodeError,
\*               which is caught and leaves self.regras = [].
\*   .sort:      a JSON value that is not an array has no sort method and
\*               raises AttributeError, which is not caught; an array is sorted
\*               as OrdenarRegras says.
\* When __init__ raises before self.regras is an array, regras is left empty.
Carregar(f) ==
    CASE f.estado \in {"inexistente", "invalido"} -> Pronto(<<>>)
      [] f.estado = "diretorio" -> Falha("IsADirectoryError", <<>>)
      [] f.estado = "nao_utf8"  -> Falha("UnicodeDecodeError", <<>>)
      [] f.estado = "ok" /\ f.topo # "array" -> Falha("AttributeError", <<>>)
      [] OTHER -> OrdenarRegras(f.conteudo)

----------------------------------------------------------------------------
(* avaliar_alerta *)

\* The value of the final `return`.
SemRegra == <<"NORMAL", "Monitorização de rotina.", "SEM_REGRA">>

Devolve(valor, vis) == [tipo |-> "return", valor |-> valor, visitadas |-> vis]
Levanta(erro, vis)  == [tipo |-> "raise", valor |-> <<erro>>, visitadas |-> vis]

\* Variant: no `break`; the inner loop goes on to the rule's next condition.
ProximaAposFalhaSemBreak(ri, ci) == <<ri, ci + 1>>

\* `condicoes_cumpridas = False; break`: the inner loop ends, the `if` after it
\* is skipped and the outer loop takes the next rule.
ProximaAposFalha(ri, ci) == <<ri + 1, 1>>

\* `if condicoes_cumpridas: return risco, acao, id` (a KeyError when the rule
\* lacks one of the keys read).
RegraCumprida(regra, vis) ==
    IF /\ "resultado" \in DOMAIN regra
       /\ {"risco", "acao"} \subseteq DOMAIN regra.resultado
       /\ "id" \in DOMAIN regra
    THEN Devolve(<<regra.resultado.risco, regra.resultado.acao, regra.id>>, vis)
    ELSE Levanta("KeyError", vis)

\* The two nested loops, from rule ri and condition ci on.  vis collects
\* <<rule index, condition index, verdict>> for every condition looked at.
RECURSIVE AvaliarDesde(_, _, _, _, _)
AvaliarDesde(rs, row, ri, ci, vis) ==
    IF ri > Len(rs) THEN Devolve(SemRegra, vis)
    ELSE LET regra == rs[ri] IN
    IF "condicoes" \notin DOMAIN regra THEN Levanta("KeyError", vis)
    ELSE IF ci > Len(regra.condicoes)
    THEN RegraCumprida(regra, vis)
    ELSE LET condicao == regra.condicoes[ci]
             falha    == ProximaAposFalha(ri, ci)
         IN
    IF "variavel" \notin DOMAIN condicao
    THEN Levanta("KeyError", Append(vis, <<ri, ci, "KeyError">>))
    ELSE IF condicao.variavel \notin DOMAIN row
    THEN AvaliarDesde(rs, row, falha[1], falha[2], Append(vis, <<ri, ci, "ausente">>))
    ELSE IF ~({"operador", "valor"} \subseteq DOMAIN condicao)
    THEN Levanta("KeyError", Append(vis, <<ri, ci, "KeyError">>))
    ELSE LET v == _verificar_condicao(row[condicao.variavel], condicao.operador,
                                      condicao.valor)
         IN  CASE v = "TypeError" ->
                    Levanta("TypeError", Append(vis, <<ri, ci, "TypeError">>))
               [] v = "False" ->
                    AvaliarDesde(rs, row, falha[1], falha[2],
                                 Append(vis, <<ri, ci, "False">>))
               [] OTHER ->
                    AvaliarDesde(rs, row, ri, ci + 1, Append(vis, <<ri, ci, "True">>))

Avaliar(rs, row) == AvaliarDesde(rs, row, 1, 1, <<>>)

----------------------------------------------------------------------------
(* processar_dataset *)

\* The three column names assigned to `resultados.columns`.
NumColunasResultado == 3

\* A CSV as read_csv returns it: the columns besides 'timestamp' and the rows,
\* each row holding a cell for every column (an empty cell is NaN).
CelulasDe(campo) == IF campo = "temp" THEN {Num(42), NaN} ELSE {Str(2)}

LinhasDe(colunas) ==
    { l \in [colunas -> UNION { CelulasDe(c) : c \in Campos }] :
        \A c \in colunas : l[c] \in CelulasDe(c) }

CsvOk(colunas, linhas) == [estado |-> "ok", colunas |-> colunas, linhas |-> linhas]
CsvInexistente == [estado |-> "inexistente", colunas |-> {}, linhas |-> <<>>]
CsvIlegivel    == [estado |-> "ilegivel", colunas |-> {}, linhas |-> <<>>]

CsvNenhum      == [estado |-> "nenhum", colunas |-> {}, linhas |-> <<>>]

FicheirosCsv ==
    {CsvInexistente, CsvIlegivel}
    \cup UNION { { CsvOk(cols, ls) :
                     ls \in UNION { [1..n -> LinhasDe(cols)] : n \in 0..MaxLinhas } } :
                 cols \in {Campos, {"temp"}} }

SemDf       == [tipo |-> "nenhum", valor |-> <<>>, lidas |-> 0]
DevolveNone == [tipo |-> "None", valor |-> <<>>, lidas |-> 0]

\* df.apply(lambda row: self.avaliar_alerta(row), axis=1): row after row, in
\* order; an exception of avaliar_alerta ends the whole call.
RECURSIVE Aplicar(_, _, _, _)
Aplicar(rs, linhas, i, acc) ==
    IF i > Len(linhas) THEN [tipo |-> "df", valor |-> acc, lidas |-> Len(linhas)]
    ELSE LET r == Avaliar(rs, linhas[i]) IN
         IF r.tipo = "raise"
         THEN [tipo |-> "raise", valor |-> r.valor, lidas |-> i]
         ELSE Aplicar(rs, linhas, i + 1, Append(acc, r.valor))

\* The part of processar_dataset after the `if not self.regras` guard.
\* On a frame without rows df.apply(..., result_type='expand') returns a copy
\* of the frame, so naming its columns raises ValueError unless the frame has
\* exactly three columns ('timestamp' and two more).
LerEAplicar(rs, csv) ==
    CASE csv.estado # "ok" -> DevolveNone
      [] csv.linhas = <<>> ->
            IF Cardinality(csv.colunas) + 1 = NumColunasResultado
            THEN [tipo |-> "df", valor |-> <<>>, lidas |-> 0]
            ELSE [tipo |-> "raise", valor |-> <<"ValueError">>, lidas |-> 0]
      [] OTHER -> Aplicar(rs, csv.linhas, 1, <<>>)

\* Variant: the `if not self.regras` guard is missing.
ProcessarSemGuarda(rs, csv) == LerEAplicar(rs, csv)

Processar(rs, csv) == IF rs = <<>> THEN DevolveNone ELSE LerEAplicar(rs, csv)

----------------------------------------------------------------------------
(* The engine as a state machine: one action per method *)

ValoresAlerta == {Num(20), Num(42), Str(2)}

\* Rows handed to avaliar_alerta directly: any subset of the fields present.
Alertas == UNION { [c -> ValoresAlerta] : c \in SUBSET Campos }

SemRetorno == [tipo |-> "nenhum", valor |-> <<>>]

Novo ==
    /\ fase = "novo"
    /\ excecao = "nenhuma"
    /\ regras = <<>>
    /\ op = "nenhuma"
    /\ alerta_row = <<>>
    /\ retorno = SemRetorno
    /\ visitadas = <<>>
    /\ ficheiro_csv = CsvNenhum
    /\ df_resultado = SemDf
    /\ linhas_lidas = 0

Init == ficheiro_regras \in FicheirosRegras(MaxRegrasLote) /\ Novo

InitAvaliar == ficheiro_regras \in FicheirosRegras(MaxRegras) /\ Novo

InitEstrutura == ficheiro_regras \in FicheirosEstrutura /\ Novo

__init__ ==
    /\ fase = "novo"
    /\ LET r == Carregar(ficheiro_regras) IN
         /\ fase' = r.fase
         /\ excecao' = r.excecao
         /\ regras' = r.regras
    /\ UNCHANGED <<ficheiro_regras, op, alerta_row, retorno, visitadas,
                   ficheiro_csv, df_resultado, linhas_lidas>>

avaliar_alerta(row) ==
    /\ fase = "pronto"
    /\ LET r == Avaliar(regras, row) IN
         /\ op' = "avaliar_alerta"
         /\ alerta_row' = row
         /\ retorno' = [tipo |-> r.tipo, valor |-> r.valor]
         /\ visitadas' = r.visitadas
    /\ ficheiro_csv' = CsvNenhum
    /\ df_resultado' = SemDf
    /\ linhas_lidas' = 0
    /\ UNCHANGED <<ficheiro_regras, fase, excecao, regras>>

processar_dataset(csv) ==
    /\ fase = "pronto"
    /\ LET r == Processar(regras, csv) IN
         /\ op' = "processar_dataset"
         /\ ficheiro_csv' = csv
         /\ df_resultado' = [tipo |-> r.tipo, valor |-> r.valor, lidas |-> r.lidas]
         /\ linhas_lidas' = r.lidas
    /\ alerta_row' = <<>>
    /\ retorno' = SemRetorno
    /\ visitadas' = <<>>
    /\ UNCHANGED <<ficheiro_regras, fase, excecao, regras>>

NextAvaliar ==
    \/ __init__
    \/ \E row \in Alertas : avaliar_alerta(row)

Next ==
    \/ __init__
    \/ \E row \in Alertas : avaliar_alerta(row)
    \/ \E csv \in FicheirosCsv : processar_dataset(csv)

\* The engine over every method, rule sources of up to MaxRegrasLote rules.
Spec == Init /\ [][Next]_vars

\* Single-row evaluation over rule sources of up to MaxRegras rules.
SpecAvaliar == InitAvaliar /\ [][NextAvaliar]_vars

\* Single-row evaluation over rule sources with structurally incomplete rules.
SpecEstrutura == InitEstrutura /\ [][NextAvaliar]_vars

----------------------------------------------------------------------------
(* Vocabulary of the properties *)

AvaliouAlerta == fase = "pronto" /\ op = "avaliar_alerta"
ProcessouDataset == fase = "pronto" /\ op = "processar_dataset"

Fonte == ficheiro_regras.conteudo

\* A condition holds: its field is in the row and the comparison is true.
CondicaoCumprida(c, row) ==
    /\ c.variavel \in DOMAIN row
    /\ _verificar_condicao(row[c.variavel], c.operador, c.valor) = "True"

\* A rule matches: every one of its conditions holds.
Cumpre(regra, row) ==
    \A j \in 1..Len(regra.condicoes) : CondicaoCumprida(regra.condicoes[j], row)

ResultadoDe(regra) == <<regra.resultado.risco, regra.resultado.acao, regra.id>>

Devolveu(valor) == retorno = [tipo |-> "return", valor |-> valor]

\* Source positions of the rules that match the row.
Cumpridas(row) == { i \in 1..Len(Fonte) : Cumpre(Fonte[i], row) }

\* i comes before j in evaluation order: lower priority value, source order on ties.
Antes(i, j) ==
    \/ Fonte[i].prioridade.v < Fonte[j].prioridade.v
    \/ Fonte[i].prioridade.v = Fonte[j].prioridade.v /\ i <= j

Falhou(e) == e[3] \in {"False", "ausente"}

----------------------------------------------------------------------------
(* C1 *)

\* C1: when two or more rules of the source match the row, avaliar_alerta
\* returns the result and id of the one with the lowest priority value, the
\* earliest in the source among those of equal priority.
C1_MenorPrioridadeGanha ==
    (AvaliouAlerta /\ Cardinality(Cumpridas(alerta_row)) >= 2) =>
        \E i \in Cumpridas(alerta_row) :
            /\ \A j \in Cumpridas(alerta_row) : Antes(i, j)
            /\ Devolveu(ResultadoDe(Fonte[i]))

----------------------------------------------------------------------------
(* C4 *)

\* C4: avaliar_alerta never fails: whatever the kinds of the row's values it
\* returns one (risk, action, rule id) triple, and an ordering operator applied
\* across a string/number mismatch is a failed condition, not an error.
C4_NuncaFalha ==
    AvaliouAlerta =>
        /\ retorno.tipo = "return"
        /\ Len(retorno.valor) = 3
        /\ \A k \in 1..Len(visitadas) : visitadas[k][3] # "TypeError"

----------------------------------------------------------------------------
(* C5 *)

\* C5: a row that no rule matches gets the default result, and the default
\* result is returned only when no rule matches.
C5_ResultadoPorOmissao ==
    AvaliouAlerta => (Cumpridas(alerta_row) = {} <=> Devolveu(SemRegra))

----------------------------------------------------------------------------
(* C6 *)

\* The result the scan owes after the rule at position ri of self.regras: that
\* of the next rule that matches, else the default.
ResultadoApos(ri, row) ==
    LET seguintes == { m \in (ri + 1)..Len(regras) : Cumpre(regras[m], row) } IN
    IF seguintes = {} THEN SemRegra
    ELSE ResultadoDe(regras[CHOOSE m \in seguintes : \A n \in seguintes : m <= n])

\* C6: a condition on a field the row lacks fails its rule without an error and
\* the scan goes on with the next rule, so the row gets the result of the next
\* matching rule or the default result.
C6_CampoAusente ==
    AvaliouAlerta =>
        \A k \in 1..Len(visitadas) :
            visitadas[k][3] = "ausente" =>
                /\ retorno.tipo = "return"
                /\ Devolveu(ResultadoApos(visitadas[k][1], alerta_row))
                /\ k < Len(visitadas) => visitadas[k + 1][1] > visitadas[k][1]

----------------------------------------------------------------------------
(* C7 *)

\* C7: for a rule list processar_dataset accepts as loaded (a non-empty one)
\* and a CSV read with N >= 0 rows, processar_dataset produces exactly N
\* results, the i-th being avaliar_alerta of the i-th row.
C7_UmResultadoPorLinha ==
    (ProcessouDataset /\ regras # <<>> /\ ficheiro_csv.estado = "ok") =>
        /\ df_resultado.tipo = "df"
        /\ Len(df_resultado.valor) = Len(ficheiro_csv.linhas)
        /\ \A i \in 1..Len(ficheiro_csv.linhas) :
              LET r == Avaliar(regras, ficheiro_csv.linhas[i]) IN
              r.tipo = "return" /\ df_resultado.valor[i] = r.valor

----------------------------------------------------------------------------
(* C8 *)

\* C8: within a rule the conditions are evaluated in declared order up to the
\* first that fails, and no rule is evaluated after one that matched: every
\* condition looked at follows a true condition of the same rule or opens a
\* rule all of whose predecessors failed, an error ends the scan, and a rule
\* the scan left behind without a failure is the one returned.
C8_CurtoCircuito ==
    AvaliouAlerta =>
        /\ \A k \in 1..Len(visitadas) :
              LET e == visitadas[k] IN
              /\ e[1] \in 1..Len(regras)
              /\ e[2] \in 1..Len(regras[e[1]].condicoes)
              /\ IF e[2] > 1
                 THEN k > 1 /\ visitadas[k - 1] = <<e[1], e[2] - 1, "True">>
                 ELSE k > 1 => /\ Falhou(visitadas[k - 1])
                               /\ visitadas[k - 1][1] < e[1]
              /\ \A m \in 1..(e[1] - 1) :
                    \E l \in 1..(k - 1) : visitadas[l][1] = m /\ Falhou(visitadas[l])
              /\ e[3] \in {"TypeError", "KeyError"} => k = Len(visitadas)
        /\ \A k \in 1..Len(visitadas), l \in 1..Len(visitadas) :
              (k < l /\ Falhou(visitadas[k])) => visitadas[l][1] > visitadas[k][1]
        /\ \A m \in 1..Len(regras) :
              (/\ Cumpre(regras[m], alerta_row)
               /\ \A n \in 1..(m - 1) :
                     \E l \in 1..Len(visitadas) :
                        visitadas[l][1] = n /\ Falhou(visitadas[l]))
              => /\ Devolveu(ResultadoDe(regras[m]))
                 /\ \A l \in 1..Len(visitadas) : visitadas[l][1] <= m

\* A two-condition rule failed on its first condition and a later rule matched.
C8_Witness ==
    /\ AvaliouAlerta
    /\ retorno.tipo = "return"
    /\ retorno.valor # SemRegra
    /\ \E k \in 1..Len(visitadas) :
          /\ Falhou(visitadas[k])
          /\ visitadas[k][2] = 1
          /\ Len(regras[visitadas[k][1]].condicoes) = 2

----------------------------------------------------------------------------
(* C10 *)

\* C10: with an empty self.regras (an empty array was loaded, or loading
\* failed) processar_dataset returns None, hands no row to avaliar_alerta and
\* produces no result, while avaliar_alerta returns the default result for
\* every row.
C10_SemRegrasDevolveNone ==
    /\ (fase = "pronto" /\ (ficheiro_regras.estado # "ok" \/ Fonte = <<>>))
          => regras = <<>>
    /\ (ProcessouDataset /\ regras = <<>>) =>
          /\ df_resultado.tipo = "None"
          /\ df_resultado.valor = <<>>
          /\ linhas_lidas = 0
          /\ \A i \in 1..Len(ficheiro_csv.linhas) :
                Avaliar(regras, ficheiro_csv.linhas[i]).valor = SemRegra
    /\ (AvaliouAlerta /\ regras = <<>>) => Devolveu(SemRegra)

\* processar_dataset was called on an engine without rules with a readable CSV
\* of two rows.
C10_Witness ==
    /\ ProcessouDataset
    /\ regras = <<>>
    /\ ficheiro_csv.estado = "ok"
    /\ Len(ficheiro_csv.linhas) = 2


----------------------------------------------------------------------------
(* C2 *)

SemFonte == ficheiro_regras.estado = "inexistente"

\* The source is there but is not a rule array: not UTF-8, not JSON, or a JSON
\* value that is not an array.
NaoAnalisavel ==
    \/ ficheiro_regras.estado \in {"nao_utf8", "invalido"}
    \/ ficheiro_regras.estado = "ok" /\ ficheiro_regras.topo # "array"

\* C2 as stated: when the rule source is missing or is not parseable,
\* construction fails with an error of a kind that tells which, and no engine
\* with an empty rule list is left behind.
C2_ConstrucaoFalha ==
    /\ (fase # "novo" /\ SemFonte) =>
          (fase = "falhou" /\ excecao = "FileNotFoundError")
    /\ (fase # "novo" /\ NaoAnalisavel) =>
          /\ fase = "falhou"
          /\ excecao \in {"JSONDecodeError", "UnicodeDecodeError", "AttributeError"}

\* C2 amended: a missing source (FileNotFoundError) and a source whose text is
\* not JSON (JSONDecodeError) are caught: the constructor completes and leaves
\* an engine whose rule list is empty, on which avaliar_alerta returns the
\* default result and processar_dataset returns None.  A source that is not
\* UTF-8 text or whose JSON value is not an array is not caught: construction
\* fails with UnicodeDecodeError, respectively AttributeError, and leaves no
\* engine.
C2_ErroEngolido ==
    /\ (fase # "novo" /\ (SemFonte \/ ficheiro_regras.estado = "invalido")) =>
          /\ fase = "pronto"
          /\ excecao = "nenhuma"
          /\ regras = <<>>
          /\ op = "avaliar_alerta" => Devolveu(SemRegra)
          /\ op = "processar_dataset" => df_resultado.tipo = "None"
    /\ (fase # "novo" /\ ficheiro_regras.estado = "nao_utf8") =>
          /\ fase = "falhou"
          /\ excecao = "UnicodeDecodeError"
          /\ op = "nenhuma"
    /\ (fase # "novo" /\ ficheiro_regras.estado = "ok"
           /\ ficheiro_regras.topo # "array") =>
          /\ fase = "falhou"
          /\ excecao = "AttributeError"
          /\ op = "nenhuma"

\* A row was evaluated on an engine built from a missing rule source.
C2_Witness ==
    /\ SemFonte
    /\ AvaliouAlerta
    /\ DOMAIN alerta_row = Campos

----------------------------------------------------------------------------
(* C3 *)

CondicaoCompleta(c) == {"variavel", "operador", "valor"} \subseteq DOMAIN c

\* C3 as stated: a parseable rule set with a rule or condition that lacks a
\* required field, or with an unknown operator, fails to load with
\* InvalidRuleError, and no such rule reaches evaluation.
C3_RegraInvalidaRejeitada ==
    /\ (fase # "novo" /\ \E i \in 1..Len(Fonte) : ~RegraCompleta(Fonte[i])) =>
          (fase = "falhou" /\ excecao = "InvalidRuleError")
    /\ fase = "pronto" => \A j \in 1..Len(regras) : RegraCompleta(regras[j])

\* Entries of the source the sort cannot take a key from.
SemPrioridade ==
    { i \in 1..Len(Fonte) : ~EhObjeto(Fonte[i]) \/ "prioridade" \notin DOMAIN Fonte[i] }

\* Two priorities of the source that Python does not order.
PrioridadesIncomparaveis ==
    \E i \in 1..Len(Fonte), j \in 1..Len(Fonte) :
        /\ i # j
        /\ \/ Fonte[i].prioridade.kind # Fonte[j].prioridade.kind
           \/ Fonte[i].prioridade.kind = "null"

\* Reading the condition raises KeyError: 'variavel' is read always, 'operador'
\* and 'valor' only when the row has the field.
LeituraFalha(c, row) ==
    \/ "variavel" \notin DOMAIN c
    \/ c.variavel \in DOMAIN row /\ ~CondicaoCompleta(c)

\* The rule lacks a key its result is read from.
SemResultado(r) ==
    \/ "resultado" \notin DOMAIN r
    \/ ~({"risco", "acao"} \subseteq DOMAIN r.resultado)
    \/ "id" \notin DOMAIN r

\* Every rule before position m failed on one of its conditions.
Chegou(m) ==
    \A n \in 1..(m - 1) :
        \E l \in 1..Len(visitadas) : visitadas[l][1] = n /\ Falhou(visitadas[l])

\* Every condition of the rule at position m was found true.
Passou(m) ==
    /\ "condicoes" \in DOMAIN regras[m]
    /\ \A j \in 1..Len(regras[m].condicoes) :
          \E l \in 1..Len(visitadas) : visitadas[l] = <<m, j, "True">>

\* C3 amended: loading validates nothing and never raises InvalidRuleError.
\* Construction fails only in the sort: with TypeError or KeyError at the first
\* entry that is not an object, respectively is an object without
\* 'prioridade', and with TypeError when all entries have a priority and two
\* of them do not compare.  Every other array loads with all its entries kept,
\* incomplete ones included, and they reach evaluation.  There a condition with
\* an unknown operator counts as false, and KeyError is raised exactly when a
\* missing key is read: 'variavel' of a condition looked at, its 'operador' or
\* 'valor' when the row has the field, 'condicoes' of a rule the scan reaches,
\* 'resultado', 'risco', 'acao' or 'id' of a rule whose conditions all held.
C3_SemValidacao ==
    /\ fase # "novo" =>
          /\ excecao # "InvalidRuleError"
          /\ CASE SemPrioridade # {} ->
                    LET k == CHOOSE i \in SemPrioridade :
                                \A j \in SemPrioridade : i <= j
                    IN  /\ fase = "falhou"
                        /\ excecao = IF EhObjeto(Fonte[k]) THEN "KeyError"
                                     ELSE "TypeError"
               [] SemPrioridade = {} /\ PrioridadesIncomparaveis ->
                    fase = "falhou" /\ excecao = "TypeError"
               [] OTHER ->
                    /\ fase = "pronto"
                    /\ excecao = "nenhuma"
                    /\ Len(regras) = Len(Fonte)
                    /\ \A i \in 1..Len(Fonte) :
                          \E j \in 1..Len(regras) : regras[j] = Fonte[i]
    /\ AvaliouAlerta =>
          /\ \A k \in 1..Len(visitadas) :
                LET c == regras[visitadas[k][1]].condicoes[visitadas[k][2]] IN
                /\ (CondicaoCompleta(c) /\ c.operador \notin Operadores)
                      => visitadas[k][3] \in {"False", "ausente"}
                /\ (visitadas[k][3] = "KeyError") <=> LeituraFalha(c, alerta_row)
          /\ (retorno = [tipo |-> "raise", valor |-> <<"KeyError">>])
                <=> \/ \E k \in 1..Len(visitadas) : visitadas[k][3] = "KeyError"
                    \/ \E m \in 1..Len(regras) :
                          /\ Chegou(m)
                          /\ \/ "condicoes" \notin DOMAIN regras[m]
                             \/ Passou(m) /\ SemResultado(regras[m])

\* A rule without 'id' was loaded and a condition with an unknown operator
\* was evaluated to false.
C3_Witness ==
    /\ AvaliouAlerta
    /\ \E j \in 1..Len(regras) : "id" \notin DOMAIN regras[j]
    /\ \E k \in 1..Len(visitadas) :
          LET c == regras[visitadas[k][1]].condicoes[visitadas[k][2]] IN
          /\ CondicaoCompleta(c)
          /\ c.operador \notin Operadores
          /\ visitadas[k][3] = "False"

====
